---------------------------- MODULE Spec2Model ----------------------------
(***************************************************************************)
(* Model of the WalmartSearch catalog filter service (src/index.js):       *)
(* filter(), getCatalog() and the POST /filter/:pagenumber/:pagesize        *)
(* handler, together with a caller that resubmits the filterData it was    *)
(* last sent.                                                              *)
(*                                                                         *)
(* Encodings.  A JavaScript string is a tuple of one-character strings.    *)
(* A productId is a positive integer and NoId stands for `undefined'.      *)
(* Prices and price bounds are counted in hundredths, so parseFloat("5.5") *)
(* is 550.  Undefined stands for an absent numeric property and NaN for    *)
(* the not-a-number result of parseFloat; a relational comparison with     *)
(* either of them is false, as it is in JavaScript.                        *)
(***************************************************************************)
EXTENDS Integers, Sequences, FiniteSets, TLC

VARIABLES
    catalog,    \* the upstream catalog: the whole product list, in order
    query,      \* the caller's filter parameters (req.body without filterData)
    held,       \* the filterData the caller holds (what it last received)
    hist,       \* what the caller remembers of the responses it received
    h,          \* per request: the handler's locals, its response, its position
    probe       \* a single call of filter(): its arguments and its result

vars == <<catalog, query, held, hist, h, probe>>

----------------------------------------------------------------------------
(* Bounds of the model *)

MaxCatalog == 5     \* products in the upstream catalog
MaxPageNo == 3      \* largest :pagenumber a caller asks for
MaxPageSize == 2    \* largest :pagesize a caller asks for

----------------------------------------------------------------------------
(* JavaScript values *)

\* F(e), with e worked out once and F applied to its value
OnValue(F(_), e) == CHOOSE y \in { F(x) : x \in { e } } : TRUE

NoId == 0
Undefined == -1
NaN == -2

IsNumber(x) == x # Undefined /\ x # NaN

\* a < b and a > b on numbers: false as soon as one side is undefined or NaN
JsLess(a, b) == IsNumber(a) /\ IsNumber(b) /\ a < b
JsGreater(a, b) == IsNumber(a) /\ IsNumber(b) /\ a > b

Digits == <<"0", "1", "2", "3", "4", "5", "6", "7", "8", "9">>

IsDigit(c) == \E d \in 1..10 : Digits[d] = c

DigitValue(c) == (CHOOSE d \in 1..10 : Digits[d] = c) - 1

\* String.prototype.substring(1)
Substring1(s) == IF Len(s) <= 1 THEN <<>> ELSE SubSeq(s, 2, Len(s))

\* how many digits s has in a row from position i on
RECURSIVE DigitRun(_, _)
DigitRun(s, i) ==
    IF i <= Len(s) /\ IsDigit(s[i]) THEN 1 + DigitRun(s, i + 1) ELSE 0

\* the value of the digits s[i] .. s[i+n-1]
RECURSIVE DigitsValue(_, _, _)
DigitsValue(s, i, n) ==
    IF n = 0 THEN 0
    ELSE 10 * DigitsValue(s, i, n - 1) + DigitValue(s[i + n - 1])

\* parseFloat on an unsigned decimal literal, in hundredths: the longest
\* prefix of the form digits [. digits]; NaN when that prefix has no digit.
\* What follows the prefix is ignored, as parseFloat ignores it.
ParseFloat(s) ==
    LET n == DigitRun(s, 1)
        dot == n < Len(s) /\ s[n + 1] = "."
        m == IF dot THEN DigitRun(s, n + 2) ELSE 0
        tenths == IF m >= 1 THEN DigitValue(s[n + 2]) ELSE 0
        hundredths == IF m >= 2 THEN DigitValue(s[n + 3]) ELSE 0
    IN  IF n = 0 /\ m = 0 THEN NaN
        ELSE 100 * DigitsValue(s, 1, n) + 10 * tenths + hundredths

\* isNaN(str[0]): Number() of one character is a number only for a digit
\* (there is no white space in the strings of the model); str[0] of the
\* empty string is undefined, and isNaN(undefined) is true
FirstIsNaN(s) == Len(s) = 0 \/ ~IsDigit(s[1])

UpperChar(c) ==
    CASE c = "a" -> "A"
      [] c = "b" -> "B"
      [] c = "t" -> "T"
      [] c = "v" -> "V"
      [] OTHER -> c

\* String.prototype.toUpperCase
ToUpperCase(s) == [i \in 1..Len(s) |-> UpperChar(s[i])]

\* String.prototype.includes
Includes(s, part) ==
    \E i \in 1..(Len(s) + 1) :
        /\ i + Len(part) - 1 <= Len(s)
        /\ SubSeq(s, i, i + Len(part) - 1) = part

----------------------------------------------------------------------------
(* filter(data, params, waiting, pId), lines 107-140 *)

\* line 124
ProductPrice(product) ==
    ParseFloat(IF FirstIsNaN(product.price)
               THEN Substring1(product.price) ELSE product.price)

\* lines 115-122: params.search is skipped when it is the empty string
SearchPasses(product, params) ==
    \/ params.search = <<>>
    \/ LET search == ToUpperCase(params.search)
       IN  \/ Includes(ToUpperCase(product.productName), search)
           \/ Includes(ToUpperCase(product.shortDescription), search)
           \/ Includes(ToUpperCase(product.longDescription), search)

\* lines 126-127
PricePasses(product, params) ==
    /\ ~JsLess(ProductPrice(product), params.minPrice)
    /\ ~JsGreater(ProductPrice(product), params.maxPrice)

\* lines 128-129
RatingPasses(product, params) ==
    /\ ~JsLess(product.reviewRating, params.minReviewRating)
    /\ ~JsGreater(product.reviewRating, params.maxReviewRating)

\* lines 130-131
CountPasses(product, params) ==
    /\ ~JsLess(product.reviewCount, params.minReviewCount)
    /\ ~JsGreater(product.reviewCount, params.maxReviewCount)

\* line 132
StockPasses(product, params) == ~params.inStock \/ product.inStock

\* lines 115-132: retval after the constraint checks
Retval(product, params) ==
    /\ SearchPasses(product, params)
    /\ PricePasses(product, params)
    /\ RatingPasses(product, params)
    /\ CountPasses(product, params)
    /\ StockPasses(product, params)

\* line 112: the product is looked at (and waiting is cleared) unless the
\* callback is still waiting for pId and this product is not pId
Reached(product, waiting, pId) ==
    ~(waiting /\ pId # NoId) \/ product.productId = pId

\* data.filter(callback): `waiting' is the callback's closure state, carried
\* from one product to the next
RECURSIVE FilterFrom(_, _, _, _, _)
FilterFrom(data, params, waiting, pId, i) ==
    IF i > Len(data) THEN <<>>
    ELSE IF Reached(data[i], waiting, pId)
         THEN (IF Retval(data[i], params) THEN <<data[i]>> ELSE <<>>)
              \o FilterFrom(data, params, FALSE, pId, i + 1)
         ELSE FilterFrom(data, params, waiting, pId, i + 1)

filter(data, params, waiting, pId) ==
    CHOOSE kept \in { FilterFrom(d, p, w, id, 1) :
                         d \in { data }, p \in { params }, w \in { waiting },
                         id \in { pId } } : TRUE

----------------------------------------------------------------------------
(* getCatalog(pageno, pagesz), lines 38-65: the page the catalog service   *)
(* sends, a CatalogResponse (lines 22-30)                                  *)

Min(a, b) == IF a <= b THEN a ELSE b

CatalogPage(pageno, pagesz) ==
    SubSeq(catalog, (pageno - 1) * pagesz + 1, Min(pageno * pagesz, Len(catalog)))

getCatalog(pageno, pagesz) ==
    [ products |-> CatalogPage(pageno, pagesz),
      totalProducts |-> Len(catalog),
      pageNumber |-> pageno,
      pageSize |-> pagesz,
      statusCode |-> 200 ]

NoResult ==
    [ products |-> <<>>, totalProducts |-> 0, pageNumber |-> 0, pageSize |-> 0,
      statusCode |-> 0 ]

----------------------------------------------------------------------------
(* The POST /filter/:pagenumber/:pagesize handler, lines 147-239 *)

\* line 151: the filterData of a request that brings none.  allDone is
\* absent there and read as false by every test of it.
NoFilterData == [ pageData |-> <<>>, knownProducts |-> 0, allDone |-> FALSE ]

\* lines 156-161
page1(pagesz) ==
    [ nextProductId |-> NoId, startPage |-> 1, filterPage |-> 1, pageSize |-> pagesz ]

\* line 162: filterData.pageData[pageno - 1] || page1
Starter(filterData, pageno, pagesz) ==
    IF pageno \in 1..Len(filterData.pageData)
    THEN filterData.pageData[pageno]
    ELSE page1(pagesz)

\* lines 167-168: filterData has no length property, so the test always
\* succeeds and pageData[0] is always overwritten
SeedPage1(filterData, pagesz) ==
    [ filterData EXCEPT !.pageData =
        IF Len(@) = 0 THEN <<page1(pagesz)>> ELSE [@ EXCEPT ![1] = page1(pagesz)] ]

\* line 164: let prevPage; (undefined until the first fetch)
NoPrevPage == [ set |-> FALSE, number |-> 0, data |-> NoResult ]

NoResponse ==
    [ products |-> <<>>, totalProducts |-> 0, pageNumber |-> Undefined,
      pageSize |-> 0, statusCode |-> 0, filterData |-> NoFilterData ]

\* a handler that is not running
IdleHandler ==
    [ pc |-> "idle", pageno |-> 0, pagesz |-> 0, params |-> query,
      prior |-> NoFilterData, filterData |-> NoFilterData, data |-> <<>>,
      cPage |-> 0, prevPage |-> NoPrevPage, nextProductId |-> NoId,
      page |-> 0, firstLoop |-> FALSE, lastPage |-> FALSE,
      calls |-> <<>>, tally |-> <<>>, response |-> NoResponse ]

\* obj[name] of JavaScript: undefined when obj has no such property
Property(obj, name) == IF name \in DOMAIN obj THEN obj[name] ELSE Undefined

\* line 147: req.params, one property per parameter of the route path
\* "/filter/:pagenumber/:pagesize"
ReqParams(s) == [ pagenumber |-> s.pageno, pagesize |-> s.pagesz ]

\* lines 224-231: res.send
Send(s) ==
    [ s EXCEPT !.pc = "done",
               !.response =
                   [ products |-> s.data,
                     totalProducts |-> s.filterData.knownProducts,
                     pageNumber |-> Property(ReqParams(s), "pageNumber"),
                     pageSize |-> s.pagesz,
                     statusCode |-> 200,
                     filterData |-> s.filterData ] ]

\* the test of line 197 without its look at pageData[page]
MarkerWantedAgain(s) == ~s.filterData.allDone

\* line 197: no marker is recorded yet for the page after `page`
\* (pageData[page], 0-based, is the marker of output page page+1)
MarkerWanted(s) ==
    ~(s.filterData.allDone \/ s.page + 1 <= Len(s.filterData.pageData))

\* the resume id taken from the last match kept instead of the first match
\* cut off
SplitMarkerAtLastKept(s) ==
    LET id == s.data[s.pagesz].productId
    IN  [ s EXCEPT !.nextProductId = id,
                   !.filterData.pageData =
                       Append(@, [ nextProductId |-> id,
                                   startPage |-> s.cPage,
                                   filterPage |-> s.page + 1,
                                   pageSize |-> s.pagesz ]),
                   !.cPage = @ - 1,
                   !.data = SubSeq(@, 1, s.pagesz) ]

\* lines 198-209: the filtered page ended inside the catalog page
SplitMarker(s) ==
    LET id == s.data[s.pagesz + 1].productId
    IN  [ s EXCEPT !.nextProductId = id,
                   !.filterData.pageData =
                       Append(@, [ nextProductId |-> id,
                                   startPage |-> s.cPage,
                                   filterPage |-> s.page + 1,
                                   pageSize |-> s.pagesz ]),
                   !.cPage = @ - 1,
                   !.data = SubSeq(@, 1, s.pagesz) ]

\* the edge marker numbered with the page just produced instead of the next
EdgeMarkerSamePage(s) ==
    [ s EXCEPT !.filterData.pageData =
                   Append(@, [ nextProductId |-> NoId,
                               startPage |-> s.cPage,
                               filterPage |-> s.page,
                               pageSize |-> s.pagesz ]) ]

\* lines 210-218: the filtered page ended on a catalog page edge
EdgeMarker(s) ==
    [ s EXCEPT !.filterData.pageData =
                   Append(@, [ nextProductId |-> NoId,
                               startPage |-> s.cPage,
                               filterPage |-> s.page + 1,
                               pageSize |-> s.pagesz ]) ]

\* lines 219-220.  tally[page] notes how many products output page `page`
\* held when knownProducts was last raised on its account.
Account(s) ==
    [ s EXCEPT !.filterData.allDone = s.lastPage,
               !.filterData.knownProducts = @ + Len(s.data),
               !.tally = IF s.page <= Len(@)
                         THEN [ @ EXCEPT ![s.page] = Len(s.data) ]
                         ELSE Append(@, Len(s.data)) ]

\* lines 197-221
MarkerBlock(s) ==
    IF MarkerWanted(s)
    THEN Account(IF Len(s.data) > s.pagesz THEN SplitMarker(s) ELSE EdgeMarker(s))
    ELSE s

\* the do-while going round until the page is full, last catalog page or not
MoreWantedPastLastPage(s) == Len(s.data) < s.pagesz

\* line 194: the do-while goes round again
MoreWanted(s) == Len(s.data) < s.pagesz /\ ~s.lastPage

\* lines 189-193, with `result` the catalog page in hand
Collect(s, result) ==
    [ s EXCEPT !.lastPage = result.pageNumber * s.pagesz >= result.totalProducts,
               !.data = @ \o filter(result.products, s.params, s.firstLoop,
                                    s.nextProductId),
               !.firstLoop = FALSE ]

\* the loop test without its check of allDone
LoopGoesOnPastAllDone(s) == s.page <= s.pageno

\* line 171: the test of the for loop
LoopGoesOn(s) == s.page <= s.pageno /\ ~s.filterData.allDone

\* every catalog page fetched anew
InHandNever(s) == FALSE

\* line 179: the catalog page wanted is the one fetched last
InHand(s) == s.prevPage.set /\ s.prevPage.number = s.cPage

\* The handler runs from one await to the next without interruption:
\*   ForLoop    line 171, the loop test, then lines 172-174 or res.send
\*   DoWhile    lines 176-188, up to the await of getCatalog (pc "await")
\*              or, when prevPage is reused, straight on
\*   Continue   lines 189-222 and back to the loop test
RECURSIVE ForLoop(_), DoWhile(_), Continue(_, _)

ForLoop(s) ==
    IF LoopGoesOn(s)
    THEN OnValue(DoWhile, [ s EXCEPT !.firstLoop = TRUE, !.data = <<>> ])
    ELSE Send(s)

DoWhile(s) ==
    LET Fetch(t) ==
            IF InHand(t)
            THEN Continue(t, t.prevPage.data)
            ELSE [ t EXCEPT !.pc = "await", !.calls = Append(@, t.cPage) ]
    IN  OnValue(Fetch, [ s EXCEPT !.cPage = @ + 1 ])

Continue(s, result) ==
    LET Test(t) ==
            IF MoreWanted(t)
            THEN DoWhile(t)
            ELSE OnValue(ForLoop, [ MarkerBlock(t) EXCEPT !.page = @ + 1 ])
    IN  OnValue(Test, Collect(s, result))

\* prevPage declared outside the handler: an invocation starts with the
\* page the other request fetched last
LocalsWithSharedPrevPage(r) ==
    [ IdleHandler EXCEPT !.prevPage = h[3 - r].prevPage ]

\* lines 151-165: every variable of the handler is declared with let inside
\* it, so the invocation for request r starts with locals of its own
Locals(r) == IdleHandler

\* lines 148-171: the request arrives with its path parameters and body
Arrive(locals, pageno, pagesz, params, filterData, tally) ==
    LET starter == Starter(filterData, pageno, pagesz)
    IN  ForLoop([ locals EXCEPT
                    !.pc = "run",
                    !.pageno = pageno,
                    !.pagesz = pagesz,
                    !.params = params,
                    !.prior = filterData,
                    !.filterData = SeedPage1(filterData, pagesz),
                    !.cPage = starter.startPage - 1,
                    !.nextProductId = starter.nextProductId,
                    !.page = starter.filterPage,
                    !.tally = tally ])

\* lines 183-188: getCatalog resolved with the page asked for
Resolved(s) ==
    LET result == getCatalog(s.cPage, s.pagesz)
    IN  Continue([ s EXCEPT !.pc = "run",
                            !.prevPage = [ set |-> TRUE, number |-> s.cPage,
                                           data |-> result ] ],
                 result)

\* lines 236-238: getCatalog rejected; the catch block logs and sends nothing
Rejected(s) == [ s EXCEPT !.pc = "failed" ]

\* the handler run through on its own, every fetch answered
RECURSIVE RunAlone(_)
RunAlone(s) == IF s.pc = "await" THEN RunAlone(Resolved(s)) ELSE s

Alone(pageno, pagesz, params, filterData) ==
    RunAlone(Arrive(IdleHandler, pageno, pagesz, params, filterData, <<>>))

----------------------------------------------------------------------------
(* The products and the filter parameters of the model *)

Television(id) ==
    [ productId |-> id, productName |-> <<"T", "v">>,
      shortDescription |-> <<"b", "a", "t">>, longDescription |-> <<>>,
      price |-> <<"$", "5">>, reviewRating |-> 4, reviewCount |-> 10,
      inStock |-> TRUE ]

Cable(id) ==
    [ productId |-> id, productName |-> <<"a", "b">>,
      shortDescription |-> <<>>, longDescription |-> <<>>,
      price |-> <<"$", "1", "5", ".", "5">>, reviewRating |-> 2,
      reviewCount |-> 0, inStock |-> FALSE ]

NoConstraints ==
    [ search |-> <<>>, minPrice |-> Undefined, maxPrice |-> Undefined,
      minReviewRating |-> Undefined, maxReviewRating |-> Undefined,
      minReviewCount |-> Undefined, maxReviewCount |-> Undefined,
      inStock |-> FALSE ]

\* keeps the televisions and drops the cables
TvOnly == [ NoConstraints EXCEPT !.search = <<"t", "V">>, !.maxPrice = 1000 ]

Queries == { NoConstraints, TvOnly }

Catalogs ==
    UNION { { [ i \in 1..n |-> IF tv[i] THEN Television(i) ELSE Cable(i) ] :
                tv \in [ 1..n -> BOOLEAN ] } : n \in 0..MaxCatalog }

\* the catalogs tried with a query: without constraints every product is
\* kept whatever it is, so televisions alone are tried
Shelves(params) ==
    IF params = NoConstraints
    THEN { c \in Catalogs : \A i \in 1..Len(c) : c[i] = Television(i) }
    ELSE Catalogs

PageNumbers == 0..MaxPageNo
PageSizes == 1..MaxPageSize
Slots == 1..2

----------------------------------------------------------------------------
(* The caller: it sends one request at a time, each with the filterData of *)
(* the last response it received, and may start afresh.                   *)

ProductIds(products) == [ i \in 1..Len(products) |-> products[i].productId ]

\* what the caller remembers:
\*   onTrack, inOrder, size, seen   since it last started afresh it has
\*       received output pages 1..inOrder, in this order and nothing else,
\*       all of page size `size`, and `seen` are their products, concatenated
\*   tally   the handler's tally, resubmitted along with filterData
NoHistory ==
    [ onTrack |-> TRUE, inOrder |-> 0, size |-> 0, seen |-> <<>>, tally |-> <<>> ]

\* the request of handler s continues the in-order sequence
InOrder(s) ==
    /\ hist.onTrack
    /\ s.pageno = hist.inOrder + 1
    /\ s.pagesz >= 1
    /\ hist.inOrder = 0 \/ s.pagesz = hist.size

Remember(s) ==
    IF InOrder(s)
    THEN [ onTrack |-> TRUE, inOrder |-> s.pageno, size |-> s.pagesz,
           seen |-> hist.seen \o ProductIds(s.response.products),
           tally |-> s.tally ]
    ELSE [ onTrack |-> FALSE, inOrder |-> 0, size |-> 0, seen |-> <<>>,
           tally |-> s.tally ]

NoProbe == [ called |-> FALSE, data |-> <<>>, params |-> NoConstraints,
             waiting |-> FALSE, pId |-> NoId, kept |-> <<>> ]

Init ==
    /\ query \in Queries
    /\ catalog \in Shelves(query)
    /\ held = NoFilterData
    /\ hist = NoHistory
    /\ h = [ r \in Slots |-> IdleHandler ]
    /\ probe = NoProbe

\* the caller posts /filter/pageno/pagesz with its query and its filterData
Request(pageno, pagesz) ==
    /\ h[1].pc = "idle"
    /\ h' = [ h EXCEPT ![1] =
                 Arrive(Locals(1), pageno, pagesz, query, held, hist.tally) ]
    /\ UNCHANGED <<catalog, query, held, hist, probe>>

\* the catalog service answers the fetch request r awaits
FetchResolve(r) ==
    /\ h[r].pc = "await"
    /\ h' = [ h EXCEPT ![r] = Resolved(h[r]) ]
    /\ UNCHANGED <<catalog, query, held, hist, probe>>

\* the fetch request r awaits fails
FetchReject(r) ==
    /\ h[r].pc = "await"
    /\ h' = [ h EXCEPT ![r] = Rejected(h[r]) ]
    /\ UNCHANGED <<catalog, query, held, hist, probe>>

\* the caller receives the response and keeps its filterData
Deliver ==
    /\ h[1].pc = "done"
    /\ held' = h[1].response.filterData
    /\ hist' = Remember(h[1])
    /\ h' = [ h EXCEPT ![1] = IdleHandler ]
    /\ UNCHANGED <<catalog, query, probe>>

\* no response comes for a failed request; the caller gives up waiting and
\* still holds what it held
GiveUp ==
    /\ h[1].pc = "failed"
    /\ h' = [ h EXCEPT ![1] = IdleHandler ]
    /\ UNCHANGED <<catalog, query, held, hist, probe>>

\* the caller drops its filterData and starts afresh
StartAfresh ==
    /\ h[1].pc = "idle"
    /\ held # NoFilterData
    /\ held' = NoFilterData
    /\ hist' = NoHistory
    /\ UNCHANGED <<catalog, query, h, probe>>

\* the request is over for the handler: its response is sent, or it failed
Close(r) ==
    /\ h[r].pc \in { "done", "failed" }
    /\ h' = [ h EXCEPT ![r] = IdleHandler ]
    /\ UNCHANGED <<catalog, query, held, hist, probe>>

Next ==
    \/ \E pageno \in PageNumbers, pagesz \in PageSizes : Request(pageno, pagesz)
    \/ FetchResolve(1)
    \/ FetchReject(1)
    \/ Deliver
    \/ GiveUp
    \/ StartAfresh

Spec == Init /\ [][Next]_vars

----------------------------------------------------------------------------
(* Two callers at once.  Each request brings its own parameters and its    *)
(* own filterData: none, or what an earlier response to the same            *)
(* parameters and page size returned.  The two handlers interleave at      *)
(* every await of getCatalog.                                              *)

\* catalogs in which a filtered page can end inside a catalog page
SplitCatalogs ==
    { c \in Catalogs : /\ Len(c) = MaxCatalog
                       /\ c[1] = Television(1)
                       /\ c[2] = Cable(2)
                       /\ c[3] = Television(3) }

\* the filterData a caller may hold for given parameters and page size
Resubmittable(pagesz, params) ==
    { NoFilterData, Alone(1, pagesz, params, NoFilterData).response.filterData }

InitTwo ==
    /\ catalog \in SplitCatalogs
    /\ query = NoConstraints
    /\ held = NoFilterData
    /\ hist = NoHistory
    /\ h = [ r \in Slots |-> IdleHandler ]
    /\ probe = NoProbe

RequestOf(r, pageno, pagesz, params) ==
    /\ h[r].pc = "idle"
    /\ \E filterData \in Resubmittable(pagesz, params) :
          h' = [ h EXCEPT ![r] =
                   Arrive(Locals(r), pageno, pagesz, params, filterData, <<>>) ]
    /\ UNCHANGED <<catalog, query, held, hist, probe>>

NextTwo ==
    \/ \E r \in Slots, pageno \in PageNumbers, pagesz \in PageSizes,
          params \in Queries : RequestOf(r, pageno, pagesz, params)
    \/ \E r \in Slots : FetchResolve(r)
    \/ \E r \in Slots : FetchReject(r)
    \/ \E r \in Slots : Close(r)

SpecTwo == InitTwo /\ [][NextTwo]_vars

----------------------------------------------------------------------------
(* Properties *)

Range(seq) == { seq[i] : i \in 1..Len(seq) }

RECURSIVE Sum(_)
Sum(seq) == IF seq = <<>> THEN 0 ELSE seq[1] + Sum(Tail(seq))

\* the whole catalog filtered once, in catalog order
FullFilter == filter(catalog, query, FALSE, NoId)
FullIds == ProductIds(FullFilter)

\* the first k chunks of n products of the whole filtered catalog
FirstChunks(k, n) == SubSeq(FullIds, 1, Min(k * n, Len(FullIds)))

\* the products of the response of request r
Products(r) == h[r].response.products

\* C1: the output pages 1..K requested in order, each with the filterData of
\* the previous response, concatenate to the first K chunks of pageSize
\* products of the whole filtered catalog.
C1_PaginationComplete ==
    hist.onTrack => hist.seen = FirstChunks(hist.inOrder, hist.size)

\* the caller has received pages 1..N in order and the marker of page N+1,
\* recorded with page N, has a nextProductId; the response to its request
\* for page N+1 is sent
AfterSplit ==
    /\ h[1].pc = "done"
    /\ InOrder(h[1])
    /\ hist.inOrder >= 1
    /\ hist.seen # <<>>
    /\ Len(held.pageData) = hist.inOrder + 1
    /\ held.pageData[hist.inOrder + 1].nextProductId # NoId

\* id is followed by next in the whole filtered catalog
Adjacent(id, next) ==
    \E i \in 1..(Len(FullIds) - 1) : FullIds[i] = id /\ FullIds[i + 1] = next

\* C2: when page N ended inside an upstream page, the first product of page
\* N+1 is the one that follows the last product of page N in the whole
\* filtered catalog.
C2_NoGapAcrossSplit ==
    AfterSplit =>
        /\ Products(1) # <<>>
        /\ Adjacent(hist.seen[Len(hist.seen)], Products(1)[1].productId)

\* C3: no response holds more than pageSize products.
C3_AtMostPageSize ==
    \A r \in Slots : h[r].pc = "done" => Len(Products(r)) <= h[r].pagesz

\* everything the caller has received once the response in hand is counted
Received == Range(hist.seen) \cup Range(ProductIds(Products(1)))

\* C4: in an in-order sequence, a response with fewer than pageSize products,
\* or one whose filterData has allDone set, comes only when every product
\* that satisfies the constraints has been returned.
C4_ShortOnlyWhenExhausted ==
    (h[1].pc = "done" /\ InOrder(h[1])) =>
        /\ Len(Products(1)) < h[1].pagesz => Range(FullIds) \subseteq Received
        /\ h[1].response.filterData.allDone => Range(FullIds) \subseteq Received

\* a request for a page beyond the last recorded marker, made with filterData
\* whose allDone is set, has been answered
BeyondWhenDone ==
    /\ h[1].pc = "done"
    /\ h[1].prior.allDone
    /\ h[1].pageno > Len(h[1].prior.pageData)

\* C5: once allDone is set, a request for a page beyond the last recorded
\* marker fetches nothing, returns no products, appends no marker and leaves
\* knownProducts, allDone and every recorded marker as they were; only
\* pageData[0] is written again, with the page size of this request in it.
C5_ExhaustedIsInert ==
    BeyondWhenDone =>
        LET s == h[1]
            was == s.prior
            now == s.response.filterData
        IN  /\ s.calls = <<>>
            /\ Products(1) = <<>>
            /\ Len(now.pageData) = Len(was.pageData)
            /\ now.knownProducts = was.knownProducts
            /\ now.allDone = was.allDone
            /\ \A i \in 2..Len(was.pageData) : now.pageData[i] = was.pageData[i]
            /\ now.pageData[1] = [ was.pageData[1] EXCEPT !.pageSize = s.pagesz ]
            /\ s.pagesz = was.pageData[1].pageSize => now = was

C5_Witness ==
    /\ BeyondWhenDone
    /\ FullIds # <<>>
    /\ h[1].pagesz # h[1].prior.pageData[1].pageSize

\* pageData[i].filterPage == i+1 with the indices of the source, which
\* start at 0
Contiguous(filterData) ==
    \A i \in 1..Len(filterData.pageData) : filterData.pageData[i].filterPage = i

\* C6: whatever pages are requested, in whatever order, the markers of the
\* filterData handed to and fro are numbered 1, 2, 3, ... without a gap.
C6_MarkersContiguous ==
    /\ Contiguous(held)
    /\ \A r \in Slots : Contiguous(h[r].filterData)
    /\ \A r \in Slots : Contiguous(h[r].response.filterData)

C6_Witness ==
    /\ ~hist.onTrack
    /\ Len(held.pageData) >= 3
    /\ \E i \in 1..Len(held.pageData) : held.pageData[i].nextProductId # NoId

\* C7: a request whose fetch failed ends with an error response sent to the
\* caller.
C7_FailureIsAnswered ==
    \A r \in Slots :
        h[r].pc = "failed" => h[r].response.statusCode \notin { 0, 200 }

\* what request r would be answered had it been the only request
AnswerAlone(r) ==
    Alone(h[r].pageno, h[r].pagesz, h[r].params, h[r].prior).response

\* C8: with two requests handled at once, each gets the response it would
\* get alone: the same products, knownProducts, markers and allDone.
C8_RequestsIsolated ==
    \A r \in Slots : h[r].pc = "done" => h[r].response = AnswerAlone(r)

\* both requests were fetching at once with different page sizes, and one
\* is answered with products while the other still waits
C8_Witness ==
    \E r \in Slots :
        /\ h[r].pc = "done"
        /\ Len(h[r].calls) >= 2
        /\ h[r].response.products # <<>>
        /\ h[3 - r].pc = "await"
        /\ h[3 - r].calls # <<>>
        /\ h[3 - r].pagesz # h[r].pagesz

\* knownProducts is the sum of the tally over the output pages whose
\* successor marker is recorded
Tallied(filterData, tally) ==
    /\ Len(tally) = IF filterData.pageData = <<>> THEN 0
                    ELSE Len(filterData.pageData) - 1
    /\ filterData.knownProducts = Sum(tally)

\* the response of handler s is for a page whose successor marker this very
\* request recorded
RecordedNow(s) ==
    /\ s.pc = "done"
    /\ s.pageno >= 1
    /\ Len(s.prior.pageData) <= s.pageno
    /\ Len(s.response.filterData.pageData) = s.pageno + 1

\* C9: knownProducts is the sum, over the output pages whose successor
\* marker is recorded, of the number of products the page held when that
\* marker was recorded; a page requested again is not counted again.  For
\* a caller that received pages 1..K in order it is the number of products
\* received.
C9_KnownProductsCountsOnce ==
    /\ Tallied(held, hist.tally)
    /\ \A r \in Slots :
          /\ h[r].pc # "idle" => Tallied(h[r].filterData, h[r].tally)
          /\ RecordedNow(h[r]) => Len(Products(r)) = h[r].tally[h[r].pageno]
          /\ h[r].pc = "done" =>
                h[r].response.totalProducts = h[r].filterData.knownProducts
    /\ hist.onTrack => held.knownProducts = Len(hist.seen)

\* a page whose successor marker is already recorded is produced again
C9_Witness ==
    /\ h[1].pc = "done"
    /\ h[1].pageno >= 1
    /\ h[1].pageno + 1 <= Len(h[1].prior.pageData)
    /\ ~h[1].prior.allDone
    /\ Products(1) # <<>>
    /\ h[1].prior.knownProducts >= 2

----------------------------------------------------------------------------
(* filter() on its own: one call after another, on lists of one or two     *)
(* products and every combination of the parameters below                  *)

ProbePrices ==
    { <<"$", "5">>, <<"1", "0">>, <<"$", "1", "5", ".", "5">>, <<"N", "A">> }

ProbeProducts(id) ==
    { [ productId |-> id, productName |-> name, shortDescription |-> <<>>,
        longDescription |-> long, price |-> price, reviewRating |-> rating,
        reviewCount |-> count, inStock |-> stock ] :
        name \in { <<"T", "v">>, <<"a", "b">> },
        long \in { <<>>, <<"a", "t", "v">> },
        price \in ProbePrices,
        rating \in { 2, 4 },
        count \in { 0, 10 },
        stock \in BOOLEAN }

ProbeLists ==
    { <<product>> : product \in ProbeProducts(1) } \cup
    { <<Cable(1), product>> : product \in ProbeProducts(2) }

ProbeParams ==
    { [ search |-> search, minPrice |-> minPrice, maxPrice |-> maxPrice,
        minReviewRating |-> minRating, maxReviewRating |-> maxRating,
        minReviewCount |-> minCount, maxReviewCount |-> maxCount,
        inStock |-> stock ] :
        search \in { <<>>, <<"t", "V">> },
        minPrice \in { Undefined, 1000 },
        maxPrice \in { Undefined, 1000 },
        minRating \in { Undefined, 4 },
        maxRating \in { Undefined, 2 },
        minCount \in { Undefined, 10 },
        maxCount \in { Undefined, 0 },
        stock \in BOOLEAN }

InitFilter ==
    /\ catalog = <<>>
    /\ query = NoConstraints
    /\ held = NoFilterData
    /\ hist = NoHistory
    /\ h = [ r \in Slots |-> IdleHandler ]
    /\ \E data \in ProbeLists, params \in ProbeParams, waiting \in BOOLEAN,
          pId \in { NoId, 1, 2 } :
          probe = [ called |-> FALSE, data |-> data, params |-> params,
                    waiting |-> waiting, pId |-> pId, kept |-> <<>> ]

\* filter(data, params, waiting, pId) is called and returns
Call ==
    /\ ~probe.called
    /\ probe' = [ probe EXCEPT
                     !.called = TRUE,
                     !.kept = filter(probe.data, probe.params, probe.waiting,
                                     probe.pId) ]
    /\ UNCHANGED <<catalog, query, held, hist, h>>

NextFilter == Call

SpecFilter == InitFilter /\ [][NextFilter]_vars

\* the product meets a lower bound (an upper bound) that is supplied: its
\* value is a number and is not below (not above) the bound
AtLeast(value, bound) == bound # Undefined => (IsNumber(value) /\ value >= bound)
AtMost(value, bound) == bound # Undefined => (IsNumber(value) /\ value <= bound)

\* the text occurs, whatever the case, in the name or a description
Mentions(product, text) ==
    \E field \in { product.productName, product.shortDescription,
                   product.longDescription } :
        Includes(ToUpperCase(field), ToUpperCase(text))

\* the product satisfies every constraint that is supplied
Satisfies(product, params) ==
    /\ params.search # <<>> => Mentions(product, params.search)
    /\ AtLeast(ProductPrice(product), params.minPrice)
    /\ AtMost(ProductPrice(product), params.maxPrice)
    /\ AtLeast(product.reviewRating, params.minReviewRating)
    /\ AtMost(product.reviewRating, params.maxReviewRating)
    /\ AtLeast(product.reviewCount, params.minReviewCount)
    /\ AtMost(product.reviewCount, params.maxReviewCount)
    /\ params.inStock => product.inStock

\* C10: with no skip in effect, filter keeps exactly the products that
\* satisfy every supplied constraint, in their order.
C10_KeepsExactlyTheMatches ==
    (probe.called /\ ~(probe.waiting /\ probe.pId # NoId)) =>
        \A i \in 1..Len(probe.data) :
            (probe.data[i] \in Range(probe.kept))
                <=> Satisfies(probe.data[i], probe.params)

----------------------------------------------------------------------------
\* C11: every response sent echoes the request: pageNumber is the page
\* number of the path and pageSize the page size of the path.
C11_EchoesTheRequest ==
    \A r \in Slots :
        h[r].pc = "done" =>
            /\ h[r].response.pageNumber = h[r].pageno
            /\ h[r].response.pageSize = h[r].pagesz

\* the marker that follows the page handler s answered
NextMarker(s) == s.response.filterData.pageData[s.pageno + 1]

\* C12: when the page requested ends with at most pageSize matches and its
\* successor marker is recorded by this request, that marker has no resume
\* id and its startPage is the catalog page after the last one fetched.
C12_EdgeMarkerResumesAfter ==
    \A r \in Slots :
        (RecordedNow(h[r]) /\ NextMarker(h[r]).nextProductId = NoId) =>
            NextMarker(h[r]).startPage = h[r].prevPage.number + 1

\* C13: when the page requested collected more than pageSize matches and its
\* successor marker is recorded by this request, the marker's resume id is
\* the match that follows the last product returned, a product of the
\* catalog page fetched last, which is its startPage; its filterPage is the
\* next page number; and exactly pageSize products are returned.
C13_SplitMarkerResumesInside ==
    \A r \in Slots :
        (RecordedNow(h[r]) /\ NextMarker(h[r]).nextProductId # NoId) =>
            LET s == h[r]
                marker == NextMarker(s)
            IN  /\ Len(Products(r)) = s.pagesz
                /\ Adjacent(Products(r)[s.pagesz].productId,
                            marker.nextProductId)
                /\ marker.startPage = s.prevPage.number
                /\ marker.nextProductId \in
                       Range(ProductIds(CatalogPage(marker.startPage, s.pagesz)))
                /\ marker.filterPage = s.pageno + 1
                /\ marker.pageSize = s.pagesz

\* page 2 is answered and ended inside a catalog page
C13_Witness ==
    /\ RecordedNow(h[1])
    /\ h[1].pageno = 2
    /\ NextMarker(h[1]).nextProductId # NoId

\* the n-th chunk of k products of the whole filtered catalog
Chunk(n, k) == SubSeq(FullIds, (n - 1) * k + 1, Min(n * k, Len(FullIds)))

\* C14: a request for page N >= 1 that brings no filterData is answered
\* with the N-th chunk of pageSize products of the whole filtered catalog,
\* the empty list when the filtered catalog ends before that chunk.
C14_WalkReturnsTheNthChunk ==
    \A r \in Slots :
        (h[r].pc = "done" /\ h[r].pageno >= 1 /\ h[r].prior = NoFilterData) =>
            ProductIds(Products(r)) = Chunk(h[r].pageno, h[r].pagesz)

\* handler s answered a request for the page the caller received last, with
\* the same page size and the filterData of that response, which holds the
\* markers of that page and of the next
Regenerated(s) ==
    /\ s.pc = "done"
    /\ hist.onTrack
    /\ hist.inOrder >= 1
    /\ s.pageno = hist.inOrder
    /\ s.pagesz = hist.size
    /\ Len(held.pageData) = hist.inOrder + 1

\* the products of the page received last, as they were received
ReceivedLast ==
    SubSeq(hist.seen, Len(hist.seen) - hist.tally[hist.inOrder] + 1,
           Len(hist.seen))

\* C15: a page requested again with the latest filterData comes with the
\* same products as the first time, and the filterData returned (markers,
\* knownProducts, allDone) is the one submitted.
C15_RegenerationIsStable ==
    Regenerated(h[1]) =>
        /\ ProductIds(Products(1)) = ReceivedLast
        /\ h[1].response.filterData = held

\* the filterData handler s received has no marker for the page requested,
\* and does not say the catalog is exhausted
Gap(s) ==
    /\ s.pageno >= 1
    /\ s.prior # NoFilterData
    /\ ~s.prior.allDone
    /\ Len(s.prior.pageData) < s.pageno

\* C16: a request whose filterData has a gap at the page requested is
\* answered as the same request without filterData: same products, same
\* markers, same knownProducts.
C16_GapRestartsFromScratch ==
    \A r \in Slots :
        (h[r].pc = "done" /\ Gap(h[r])) =>
            LET s == h[r]
                fresh == Alone(s.pageno, s.pagesz, s.params, NoFilterData)
            IN  /\ s.response.products = fresh.response.products
                /\ s.response.filterData.pageData =
                       fresh.response.filterData.pageData
                /\ s.response.filterData.knownProducts =
                       fresh.response.filterData.knownProducts

StrictlyIncreasing(seq) == \A i \in 1..(Len(seq) - 1) : seq[i] < seq[i + 1]

\* C17: the catalog page numbers a request fetches, in the order of the
\* getCatalog calls, are strictly increasing, so no page is fetched twice;
\* and a call is made only when every earlier call of the request has been
\* answered: while the handler awaits, the call awaited is the last one made
\* and the one before it is the page in prevPage; otherwise the last call
\* made is the page in prevPage.
C17_FetchesInSequence ==
    \A r \in Slots :
        LET s == h[r]
            n == Len(s.calls)
        IN  /\ StrictlyIncreasing(s.calls)
            /\ s.pc = "await" =>
                   /\ n >= 1 /\ s.calls[n] = s.cPage
                   /\ n >= 2 => s.prevPage.set /\ s.prevPage.number = s.calls[n - 1]
                   /\ n = 1 => ~s.prevPage.set
            /\ (s.pc = "done" /\ n >= 1) =>
                   s.prevPage.set /\ s.prevPage.number = s.calls[n]
            /\ (s.pc = "done" /\ n = 0) => ~s.prevPage.set

\* one request walked pages 1 and 2, page 1 ended inside a catalog page and
\* page 2 started from that catalog page
C17_Witness ==
    /\ h[1].pc = "done"
    /\ h[1].prior = NoFilterData
    /\ Len(h[1].filterData.pageData) = 3
    /\ h[1].filterData.pageData[2].nextProductId # NoId
    /\ h[1].filterData.pageData[2].startPage \in Range(h[1].calls)

----------------------------------------------------------------------------
(* One caller, any page size from 0, every fetch answered *)

\* a catalog of televisions with one cable, which splits the first page of
\* two; and the empty and the longest catalog of cables alone, which TvOnly
\* scans to the end without a match
LiveCatalogs ==
    { c \in Catalogs :
        /\ Len(c) \in { 0, MaxCatalog }
        /\ \/ \A i \in 1..Len(c) : c[i] = Cable(i)
           \/ \A i \in 1..Len(c) : (c[i] = Cable(i)) <=> (i = 2) }

\* page size 0 and a page size that splits pages
LivePageSizes == { 0, MaxPageSize }

InitLive ==
    /\ query \in Queries
    /\ catalog \in LiveCatalogs
    /\ held = NoFilterData
    /\ hist = NoHistory
    /\ h = [ r \in Slots |-> IdleHandler ]
    /\ probe = NoProbe

NextLive ==
    \/ \E pageno \in PageNumbers, pagesz \in LivePageSizes :
          Request(pageno, pagesz)
    \/ FetchResolve(1)
    \/ Deliver
    \/ StartAfresh

\* The catalog service answers every request (no FetchReject here), the
\* promise of getCatalog is then resolved and the event loop resumes the
\* handler after its await.
SpecLive == InitLive /\ [][NextLive]_vars /\ WF_vars(FetchResolve(1))

\* the calls a request may need: one for each catalog page up to the end of
\* the catalog, and one for each page of the walk beyond it
FetchLimit(s) == Len(catalog) + s.pageno + 1

\* C18: with every fetch answered, a request makes a bounded number of
\* getCatalog calls and then sends its response, whatever the catalog, the
\* constraints, the page number, the page size from 0 up, and the filterData
\* brought back from earlier responses.
C18_HandlerTerminates ==
    /\ [](\A r \in Slots : Len(h[r].calls) <= FetchLimit(h[r]))
    /\ \A r \in Slots : (h[r].pc = "await") ~> (h[r].pc = "done")

\* a request with page size 0 made calls and was answered
C18_Witness ==
    /\ h[1].pc = "done"
    /\ h[1].pagesz = 0
    /\ Len(h[1].calls) >= 2

----------------------------------------------------------------------------
(* filter() called on its own: the skip and the price *)

\* the index of the first product of data whose productId is pId, one past
\* the end when there is none
FirstAt(data, pId) ==
    LET hits == { i \in 1..Len(data) : data[i].productId = pId }
    IN  IF hits = {} THEN Len(data) + 1
        ELSE CHOOSE i \in hits : \A j \in hits : i <= j

\* the products of data from the one filter starts looking at
Looked(data, waiting, pId) ==
    SubSeq(data, IF waiting /\ pId # NoId THEN FirstAt(data, pId) ELSE 1,
           Len(data))

\* the products of data that satisfy every supplied constraint, in order
Matches(data, params) ==
    LET Fits(product) == Satisfies(product, params)
    IN  SelectSeq(data, Fits)

\* C19: called with waiting true and a resume id pId, filter returns the
\* constraint-satisfying products from the first product whose productId is
\* pId on, in order, and nothing when no product has that id; called with
\* waiting false or without pId it skips nothing.
C19_SkipsUntilTheResumeId ==
    probe.called =>
        probe.kept = Matches(Looked(probe.data, probe.waiting, probe.pId),
                             probe.params)

\* what filter keeps with the skip is what it keeps, without a skip, of the
\* products from the resume id on
SkipDropsOnlyThePrefix ==
    probe.called =>
        probe.kept = filter(Looked(probe.data, probe.waiting, probe.pId),
                            probe.params, FALSE, NoId)

\* C20: a product whose price does not parse is excluded when minPrice or
\* maxPrice is supplied; when neither is supplied it is kept or not by the
\* other constraints alone.
C20_UnparseablePriceFailsABound ==
    (probe.called /\ ~(probe.waiting /\ probe.pId # NoId)) =>
        \A i \in 1..Len(probe.data) :
            ProductPrice(probe.data[i]) = NaN =>
                IF probe.params.minPrice # Undefined
                       \/ probe.params.maxPrice # Undefined
                THEN probe.data[i] \notin Range(probe.kept)
                ELSE (probe.data[i] \in Range(probe.kept))
                        <=> Satisfies(probe.data[i], probe.params)

=============================================================================
